---- MODULE Spec2Model ----
(***************************************************************************)
(* Entry pagination / read-state store of the feed reader, with the feed   *)
(* and group aggregate stores it mutates and the remote gateway it calls.  *)
(* Every async store operation is split at its `await`: one action for the *)
(* synchronous prefix (which issues the request) and one for each outcome  *)
(* of the continuation.  The event loop is single threaded, so each part   *)
(* is atomic.                                                              *)
(***************************************************************************)
EXTENDS Integers, Sequences, FiniteSets, TLC

\* ------------------------------------------------------------------ bounds
NumEntries == 3
MaxInflight == 2
MaxNow == 3
MaxPage == 3
MaxLoaded == 4
MaxCount == 3
MaxRecoveries == 2

\* ------------------------------------------------------- remote data set
NULL == 0
\* the null of the string-valued error field
NoError == "null"
EntryIds == 1..NumEntries
Slots == 1..MaxInflight

Feeds == {"f1", "f2"}
Groups == {"g1", "g2"}
Categories == {"tech"}

\* rows of the entries table: owning feed and publish timestamp
FeedOf(e) == IF e % 2 = 1 THEN "f1" ELSE "f2"
Pub(e) == (e + 1) \div 2

\* feed.category || 'other'
CatOf(fd) == "tech"

\* group_feeds rows: f1 belongs to both groups
feedsByGroup(g) == IF g = "g1" THEN {"f1", "f2"} ELSE {"f1"}

GroupsOf(fd) == {g \in Groups : fd \in feedsByGroup(g)}
feedsByCategory(c) == {fd \in Feeds : CatOf(fd) = c}

\* rows matched by the search query
SearchHits == EntryIds

PageSizes == {1, 2}

\* ------------------------------------------------------------- filters
Flt(t, a, u) == [type |-> t, arg |-> a, unreadOnly |-> u]
FAll == Flt("all", "", FALSE)
FAllUnread == Flt("all", "", TRUE)
FFeed == Flt("feed", "f1", FALSE)
FGroup == Flt("group", "g2", FALSE)
FCategory == Flt("category", "tech", FALSE)
FStarred == Flt("starred", "", FALSE)
FSearch == Flt("search", "q", FALSE)
Filters == {FAll, FAllUnread, FFeed, FGroup, FCategory, FStarred, FSearch}

\* cursor objects; NoCursor stands for null / undefined
Cur(p, s, i) == [published_at |-> p, starred_at |-> s, id |-> i]
NoCursor == Cur(NULL, NULL, NULL)

VARIABLES
  entries, selectedEntryId, loading, loadingMore, hasMore, filter, error,
  searchOffset, currentPage, pageCursors, markReadTimer,
  readerOpen, paginationMode, entriesPerPage,
  unread_count, categoryUnreadCounts, group_unread_count,
  srvReadAt, srvStarredAt, now, net, orph, hist,
  timers,
  dbSyncEnabled, dbSaveTimer, settingsLoaded, dbLoads, dbSaves, srvSettings,
  searchQuery, isSearching, debounceTimer, lastCallback, mounted,
  pendingRecovery, recoveryTimer, recoveriesScheduled, refetchCalls

storeVars == <<entries, selectedEntryId, loading, loadingMore, hasMore, filter,
               error, searchOffset, currentPage, pageCursors, markReadTimer>>
uiVars == <<readerOpen, paginationMode, entriesPerPage>>
countVars == <<unread_count, categoryUnreadCounts, group_unread_count>>
srvVars == <<srvReadAt, srvStarredAt>>
syncVars == <<dbSyncEnabled, dbSaveTimer, settingsLoaded, dbLoads, dbSaves, srvSettings>>
searchVars == <<searchQuery, isSearching, debounceTimer, lastCallback, mounted>>
recoveryVars == <<pendingRecovery, recoveryTimer, recoveriesScheduled, refetchCalls>>
shellVars == <<timers, syncVars, searchVars, recoveryVars>>
vars == <<storeVars, uiVars, countVars, srvVars, now, net, orph, hist, shellVars>>

\* ------------------------------------------------------------ sequences
RECURSIVE SeqSum(_)
SeqSum(s) == IF s = <<>> THEN 0 ELSE Head(s) + SeqSum(Tail(s))

RECURSIVE SetSum(_, _)
SetSum(S, fn) ==
  IF S = {} THEN 0
  ELSE LET x == CHOOSE y \in S : TRUE IN fn[x] + SetSum(S \ {x}, fn)

Ids(s) == {s[i].id : i \in 1..Len(s)}

Take(s, n) == IF n >= Len(s) THEN s ELSE SubSeq(s, 1, n)
Drop(s, n) == IF n >= Len(s) THEN <<>> ELSE SubSeq(s, n + 1, Len(s))

\* strict "sorts before": larger key first, ties broken by id descending
Before(k1, i1, k2, i2) == k1 > k2 \/ (k1 = k2 /\ i1 > i2)

\* ---------------------------------------------------- remote procedures
\* the sort key the procedure of filter f orders by
SortKey(f, e) == IF f.type = "starred" THEN srvStarredAt[e] ELSE Pub(e)

Matches(f, e) ==
  CASE f.type = "feed" -> FeedOf(e) = f.arg /\ (f.unreadOnly => srvReadAt[e] = NULL)
    [] f.type = "group" -> FeedOf(e) \in feedsByGroup(f.arg)
                             /\ (f.unreadOnly => srvReadAt[e] = NULL)
    [] f.type = "category" -> CatOf(FeedOf(e)) = f.arg
                             /\ (f.unreadOnly => srvReadAt[e] = NULL)
    [] f.type = "starred" -> srvStarredAt[e] # NULL
    [] f.type = "search" -> e \in SearchHits
    [] OTHER -> f.unreadOnly => srvReadAt[e] = NULL

RECURSIVE SortDesc(_, _)
SortDesc(f, S) ==
  IF S = {} THEN <<>>
  ELSE LET top == CHOOSE e \in S :
                    \A o \in S \ {e} : Before(SortKey(f, e), e, SortKey(f, o), o)
       IN <<top>> \o SortDesc(f, S \ {top})

Row(e) == [id |-> e, read_at |-> srvReadAt[e], starred_at |-> srvStarredAt[e]]

\* the rows a get_*_entries / search_entries call returns for its params
RpcRows(r) ==
  LET cand == {e \in EntryIds :
                 /\ Matches(r.f, e)
                 /\ (r.cursor_id # NULL
                       => Before(r.cursor_ts, r.cursor_id, SortKey(r.f, e), e))}
      sorted == SortDesc(r.f, cand)
      rest == IF r.f.type = "search" THEN Drop(sorted, r.offset) ELSE sorted
      page == Take(rest, r.limit)
  IN [i \in 1..Len(page) |-> Row(page[i])]


\* --------------------------------------------------------------- network
\* one record per pending remote call; op = "none" marks a free slot
Req(op, f, cts, cid, lim, off, id, val, cap, dir) ==
  [op |-> op, f |-> f, cursor_ts |-> cts, cursor_id |-> cid, limit |-> lim,
   offset |-> off, id |-> id, val |-> val, cap |-> cap, dir |-> dir]
NoReq == Req("none", FAll, NULL, NULL, 0, 0, NULL, NULL, 0, "")

FetchOps == {"fetchEntries", "fetchMore", "fetchPage", "silentRefresh"}
UpsertOps == {"markRead", "toggleRead", "toggleStar"}
BulkOps == {"markAllRead", "markFeedAsRead", "markGroupAsRead", "markCategoryAsRead"}

FreeSlots(n) == {s \in Slots : n[s].op = "none"}
FreeSlot(n) == CHOOSE s \in FreeSlots(n) : \A t \in FreeSlots(n) : s <= t
Send(n, r) == [n EXCEPT ![FreeSlot(n)] = r]

\* _callRpc: the parameters sent for filter f and an optional cursor
callRpc(op, f, cursor, off0, dir) ==
  LET hasCur == cursor # NoCursor
      cts == CASE f.type = "starred" ->
                    IF hasCur /\ cursor.starred_at # NULL
                    THEN cursor.starred_at ELSE NULL
               [] f.type = "search" -> NULL
               [] OTHER -> IF hasCur THEN cursor.published_at ELSE NULL
      cid == CASE f.type = "starred" ->
                    IF hasCur /\ cursor.starred_at # NULL THEN cursor.id ELSE NULL
               [] f.type = "search" -> NULL
               [] OTHER -> IF hasCur THEN cursor.id ELSE NULL
      off == IF f.type = "search" THEN off0 ELSE 0
  IN Req(op, f, cts, cid, entriesPerPage, off, NULL, NULL, 0, dir)

\* ------------------------------------------- entry objects and captures
\* An upsert continuation mutates the entry object found before the await.
\* cap = 0: the object is still the first list element with that id;
\* cap = k: the list was replaced meanwhile and the object is orph[k].
NoObj == [id |-> NULL, read_at |-> NULL, starred_at |-> NULL]

IndexOf(s, id) ==
  IF id \in Ids(s)
  THEN CHOOSE i \in 1..Len(s) : s[i].id = id /\ \A j \in 1..(i - 1) : s[j].id # id
  ELSE 0

LiveCaps(n) == {n[s].id : s \in {t \in Slots : n[t].op \in UpsertOps /\ n[t].cap = 0}}
UsedOrph(n) == {n[s].cap : s \in {t \in Slots : n[t].op \in UpsertOps}} \ {0}
NthFree(n, k) ==
  LET free == Slots \ UsedOrph(n)
  IN CHOOSE x \in free : Cardinality({y \in free : y < x}) = k - 1
RankIn(S, x) == Cardinality({y \in S : y < x}) + 1

\* the list is about to be replaced: move every captured list object aside
DetachNet(n) ==
  [s \in Slots |->
     IF n[s].op \in UpsertOps /\ n[s].cap = 0
     THEN [n[s] EXCEPT !.cap = NthFree(n, RankIn(LiveCaps(n), n[s].id))]
     ELSE n[s]]
DetachOrph(n, o) ==
  [k \in Slots |->
     IF \E id \in LiveCaps(n) : NthFree(n, RankIn(LiveCaps(n), id)) = k
     THEN LET id == CHOOSE i \in LiveCaps(n) : NthFree(n, RankIn(LiveCaps(n), i)) = k
          IN entries[IndexOf(entries, id)]
     ELSE o[k]]

\* drop orphan objects no pending continuation refers to
Gc(n, o) == [k \in Slots |-> IF k \in UsedOrph(n) THEN o[k] ELSE NoObj]

Obj(r) == IF r.cap = 0 THEN entries[IndexOf(entries, r.id)] ELSE orph[r.cap]

FetchPending == \E s \in Slots : net[s].op \in FetchOps

Max(a, b) == IF a >= b THEN a ELSE b
Min(a, b) == IF a <= b THEN a ELSE b


LastCursor ==
  LET lastEntry == entries[Len(entries)]
  IN Cur(Pub(lastEntry.id), lastEntry.starred_at, lastEntry.id)

\* hist follows the script "fetchEntries, next, prev, each awaited before the
\* next call": e E n N p P; r = silentRefresh called right after the awaited
\* fetchEntries; x = anything else happened to the pagination
Step(from, to) == IF hist = from THEN to ELSE "x"

\* ------------------------------------------------------------ fetchEntries
\* mutant: the filter change forgets the page-mode state
FetchEntriesKeepsPage(F) ==
  /\ FreeSlots(net) # {}
  /\ loading' = TRUE
  /\ error' = NoError
  /\ filter' = F
  /\ entries' = <<>>
  /\ selectedEntryId' = NULL
  /\ searchOffset' = 0
  /\ net' = Send(DetachNet(net), callRpc("fetchEntries", F, NoCursor, 0, ""))
  /\ orph' = DetachOrph(net, orph)
  /\ hist' = IF FetchPending THEN "x" ELSE "e"
  /\ UNCHANGED <<currentPage, pageCursors, loadingMore, hasMore, markReadTimer, uiVars, shellVars,
                 countVars, srvVars, now>>

FetchEntries(F) ==
  /\ FreeSlots(net) # {}
  /\ loading' = TRUE
  /\ error' = NoError
  /\ filter' = F
  /\ entries' = <<>>
  /\ selectedEntryId' = NULL
  /\ searchOffset' = 0
  /\ currentPage' = 1
  /\ pageCursors' = <<NoCursor>>
  /\ net' = Send(DetachNet(net), callRpc("fetchEntries", F, NoCursor, 0, ""))
  /\ orph' = DetachOrph(net, orph)
  /\ hist' = IF FetchPending THEN "x" ELSE "e"
  /\ UNCHANGED <<loadingMore, hasMore, markReadTimer, uiVars, shellVars, countVars, srvVars, now>>

\* mutant: a response whose filter is no longer the active one is dropped
FetchEntriesOkDropsStale(s) ==
  /\ net[s].op = "fetchEntries"
  /\ IF net[s].f = filter
     THEN LET rows == RpcRows(net[s])
          IN /\ entries' = rows
             /\ hasMore' = (Len(rows) >= entriesPerPage)
             /\ searchOffset' = IF net[s].f.type = "search" THEN Len(rows) ELSE searchOffset
             /\ net' = [DetachNet(net) EXCEPT ![s] = NoReq]
             /\ orph' = Gc(net', DetachOrph(net, orph))
     ELSE /\ net' = [net EXCEPT ![s] = NoReq]
          /\ UNCHANGED <<entries, hasMore, searchOffset, orph>>
  /\ loading' = FALSE
  /\ hist' = Step("e", "E")
  /\ UNCHANGED <<selectedEntryId, loadingMore, filter, error, currentPage, pageCursors,
                 markReadTimer, uiVars, shellVars, countVars, srvVars, now>>

FetchEntriesOk(s) ==
  /\ net[s].op = "fetchEntries"
  /\ LET rows == RpcRows(net[s])
     IN /\ entries' = rows
        /\ hasMore' = (Len(rows) >= entriesPerPage)
        /\ searchOffset' = IF net[s].f.type = "search" THEN Len(rows) ELSE searchOffset
  /\ loading' = FALSE
  /\ net' = [DetachNet(net) EXCEPT ![s] = NoReq]
  /\ orph' = Gc(net', DetachOrph(net, orph))
  /\ hist' = Step("e", "E")
  /\ UNCHANGED <<selectedEntryId, loadingMore, filter, error, currentPage, pageCursors,
                 markReadTimer, uiVars, shellVars, countVars, srvVars, now>>

FetchEntriesErr(s) ==
  /\ net[s].op = "fetchEntries"
  /\ error' = "Failed to fetch entries"
  /\ loading' = FALSE
  /\ net' = [net EXCEPT ![s] = NoReq]
  /\ hist' = "x"
  /\ UNCHANGED <<entries, selectedEntryId, loadingMore, hasMore, filter, searchOffset,
                 currentPage, pageCursors, markReadTimer, uiVars, shellVars, countVars, srvVars,
                 now, orph>>

\* --------------------------------------------------------------- fetchMore
\* mutant: the busy flag is not consulted
FetchMoreNotBusy ==
  /\ hasMore /\ Len(entries) # 0
  /\ FreeSlots(net) # {}
  /\ Len(entries) < MaxLoaded
  /\ loadingMore' = TRUE
  /\ error' = NoError
  /\ net' = Send(net, IF filter.type = "search"
                      THEN callRpc("fetchMore", filter, NoCursor, searchOffset, "")
                      ELSE callRpc("fetchMore", filter, LastCursor, searchOffset, ""))
  /\ hist' = "x"
  /\ UNCHANGED <<entries, selectedEntryId, loading, hasMore, filter, searchOffset,
                 currentPage, pageCursors, markReadTimer, uiVars, shellVars, countVars, srvVars,
                 now, orph>>

\* mutant: hasMore is not consulted
FetchMoreIgnoresHasMore ==
  /\ ~loadingMore /\ Len(entries) # 0
  /\ FreeSlots(net) # {}
  /\ Len(entries) < MaxLoaded
  /\ loadingMore' = TRUE
  /\ error' = NoError
  /\ net' = Send(net, IF filter.type = "search"
                      THEN callRpc("fetchMore", filter, NoCursor, searchOffset, "")
                      ELSE callRpc("fetchMore", filter, LastCursor, searchOffset, ""))
  /\ hist' = "x"
  /\ UNCHANGED <<entries, selectedEntryId, loading, hasMore, filter, searchOffset,
                 currentPage, pageCursors, markReadTimer, uiVars, shellVars, countVars, srvVars,
                 now, orph>>

FetchMore ==
  /\ ~loadingMore /\ hasMore /\ Len(entries) # 0
  /\ FreeSlots(net) # {}
  /\ Len(entries) < MaxLoaded
  /\ loadingMore' = TRUE
  /\ error' = NoError
  /\ net' = Send(net, IF filter.type = "search"
                      THEN callRpc("fetchMore", filter, NoCursor, searchOffset, "")
                      ELSE callRpc("fetchMore", filter, LastCursor, searchOffset, ""))
  /\ hist' = "x"
  /\ UNCHANGED <<entries, selectedEntryId, loading, hasMore, filter, searchOffset,
                 currentPage, pageCursors, markReadTimer, uiVars, shellVars, countVars, srvVars,
                 now, orph>>

FetchMoreOk(s) ==
  /\ net[s].op = "fetchMore"
  /\ LET rows == RpcRows(net[s])
     IN /\ entries' = entries \o rows
        /\ hasMore' = (Len(rows) >= entriesPerPage)
        /\ searchOffset' = IF filter.type = "search"
                           THEN searchOffset + Len(rows) ELSE searchOffset
  /\ loadingMore' = FALSE
  /\ net' = [net EXCEPT ![s] = NoReq]
  /\ hist' = "x"
  /\ UNCHANGED <<selectedEntryId, loading, filter, error, currentPage, pageCursors,
                 markReadTimer, uiVars, shellVars, countVars, srvVars, now, orph>>

FetchMoreErr(s) ==
  /\ net[s].op = "fetchMore"
  /\ error' = "Failed to load more entries"
  /\ loadingMore' = FALSE
  /\ net' = [net EXCEPT ![s] = NoReq]
  /\ hist' = "x"
  /\ UNCHANGED <<entries, selectedEntryId, loading, hasMore, filter, searchOffset,
                 currentPage, pageCursors, markReadTimer, uiVars, shellVars, countVars, srvVars,
                 now, orph>>

\* --------------------------------------------------------------- fetchPage
\* 'next' on an empty list: entries[length - 1] is undefined, reading its
\* published_at throws inside the try block and the catch stores the message
FetchPageNextEmpty ==
  /\ hasMore /\ Len(entries) = 0
  /\ loading' = FALSE
  /\ error' = "TypeError"
  /\ selectedEntryId' = NULL
  /\ hist' = "x"
  /\ UNCHANGED <<entries, loadingMore, hasMore, filter, searchOffset, currentPage,
                 pageCursors, markReadTimer, uiVars, shellVars, countVars, srvVars, now, net, orph>>

\* mutant: 'next' does not consult hasMore
FetchPageNextUnguarded ==
  /\ Len(entries) # 0
  /\ FreeSlots(net) # {}
  /\ currentPage < MaxPage
  /\ loading' = TRUE
  /\ error' = NoError
  /\ selectedEntryId' = NULL
  /\ currentPage' = currentPage + 1
  /\ pageCursors' = IF currentPage' <= Len(pageCursors)
                    THEN [pageCursors EXCEPT ![currentPage'] = LastCursor]
                    ELSE Append(pageCursors, LastCursor)
  /\ searchOffset' = IF filter.type = "search"
                     THEN (currentPage' - 1) * entriesPerPage ELSE searchOffset
  /\ net' = Send(net, IF filter.type = "search"
                      THEN callRpc("fetchPage", filter, NoCursor, searchOffset', "next")
                      ELSE callRpc("fetchPage", filter, LastCursor, searchOffset', "next"))
  /\ hist' = IF hist = "E" /\ ~FetchPending THEN "n" ELSE "x"
  /\ UNCHANGED <<entries, loadingMore, hasMore, filter, markReadTimer, uiVars, shellVars,
                 countVars, srvVars, now, orph>>

FetchPageNext ==
  /\ hasMore /\ Len(entries) # 0
  /\ FreeSlots(net) # {}
  /\ currentPage < MaxPage
  /\ loading' = TRUE
  /\ error' = NoError
  /\ selectedEntryId' = NULL
  /\ currentPage' = currentPage + 1
  /\ pageCursors' = IF currentPage' <= Len(pageCursors)
                    THEN [pageCursors EXCEPT ![currentPage'] = LastCursor]
                    ELSE Append(pageCursors, LastCursor)
  /\ searchOffset' = IF filter.type = "search"
                     THEN (currentPage' - 1) * entriesPerPage ELSE searchOffset
  /\ net' = Send(net, IF filter.type = "search"
                      THEN callRpc("fetchPage", filter, NoCursor, searchOffset', "next")
                      ELSE callRpc("fetchPage", filter, LastCursor, searchOffset', "next"))
  /\ hist' = IF hist = "E" /\ ~FetchPending THEN "n" ELSE "x"
  /\ UNCHANGED <<entries, loadingMore, hasMore, filter, markReadTimer, uiVars, shellVars,
                 countVars, srvVars, now, orph>>

\* mutant: 'prev' re-reads the cursor of the page it is leaving
FetchPagePrevSamePage ==
  /\ currentPage > 1
  /\ FreeSlots(net) # {}
  /\ loading' = TRUE
  /\ error' = NoError
  /\ selectedEntryId' = NULL
  /\ currentPage' = currentPage - 1
  /\ searchOffset' = IF filter.type = "search"
                     THEN currentPage' * entriesPerPage ELSE searchOffset
  /\ net' = Send(net, IF filter.type = "search"
                      THEN callRpc("fetchPage", filter, NoCursor, searchOffset', "prev")
                      ELSE callRpc("fetchPage", filter, pageCursors[currentPage],
                                   searchOffset', "prev"))
  /\ hist' = IF hist = "N" /\ ~FetchPending THEN "p" ELSE "x"
  /\ UNCHANGED <<entries, loadingMore, hasMore, filter, pageCursors, markReadTimer,
                 uiVars, shellVars, countVars, srvVars, now, orph>>

FetchPagePrev ==
  /\ currentPage > 1
  /\ FreeSlots(net) # {}
  /\ loading' = TRUE
  /\ error' = NoError
  /\ selectedEntryId' = NULL
  /\ currentPage' = currentPage - 1
  /\ searchOffset' = IF filter.type = "search"
                     THEN (currentPage' - 1) * entriesPerPage ELSE searchOffset
  /\ net' = Send(net, IF filter.type = "search"
                      THEN callRpc("fetchPage", filter, NoCursor, searchOffset', "prev")
                      ELSE callRpc("fetchPage", filter, pageCursors[currentPage'],
                                   searchOffset', "prev"))
  /\ hist' = IF hist = "N" /\ ~FetchPending THEN "p" ELSE "x"
  /\ UNCHANGED <<entries, loadingMore, hasMore, filter, pageCursors, markReadTimer,
                 uiVars, shellVars, countVars, srvVars, now, orph>>

FetchPageOk(s) ==
  /\ net[s].op = "fetchPage"
  /\ LET rows == RpcRows(net[s])
     IN /\ entries' = rows
        /\ hasMore' = (Len(rows) >= entriesPerPage)
  /\ loading' = FALSE
  /\ net' = [DetachNet(net) EXCEPT ![s] = NoReq]
  /\ orph' = Gc(net', DetachOrph(net, orph))
  /\ hist' = CASE hist = "n" /\ net[s].dir = "next" -> "N"
               [] hist = "p" /\ net[s].dir = "prev" -> "P"
               [] OTHER -> "x"
  /\ UNCHANGED <<selectedEntryId, loadingMore, filter, error, searchOffset, currentPage,
                 pageCursors, markReadTimer, uiVars, shellVars, countVars, srvVars, now>>

FetchPageErr(s) ==
  /\ net[s].op = "fetchPage"
  /\ error' = "Failed to load page"
  /\ loading' = FALSE
  /\ net' = [net EXCEPT ![s] = NoReq]
  /\ hist' = "x"
  /\ UNCHANGED <<entries, selectedEntryId, loadingMore, hasMore, filter, searchOffset,
                 currentPage, pageCursors, markReadTimer, uiVars, shellVars, countVars, srvVars,
                 now, orph>>


\* ----------------------------------------------------------- silentRefresh
SilentRefreshAllowed ==
  /\ ~loading /\ ~loadingMore
  /\ ~(readerOpen /\ selectedEntryId # NULL)

\* the call up to its await
SilentRefreshCall ==
  /\ IF paginationMode = "infinite" /\ filter.type # "search" /\ Len(entries) > 0
     THEN /\ net' = Send(net, callRpc("silentRefresh", filter, NoCursor, searchOffset,
                                      "merge"))
          /\ UNCHANGED searchOffset
     ELSE /\ searchOffset' = IF filter.type = "search"
                             THEN (currentPage - 1) * entriesPerPage ELSE searchOffset
          /\ net' = Send(net, callRpc("silentRefresh", filter,
                                      IF currentPage <= Len(pageCursors)
                                      THEN pageCursors[currentPage] ELSE NoCursor,
                                      searchOffset', "replace"))
  /\ hist' = IF hist = "E" /\ ~FetchPending THEN "r" ELSE "x"

SilentRefresh ==
  /\ SilentRefreshAllowed
  /\ FreeSlots(net) # {}
  /\ SilentRefreshCall
  /\ UNCHANGED <<entries, selectedEntryId, loading, loadingMore, hasMore, filter, error,
                 currentPage, pageCursors, markReadTimer, uiVars, shellVars, countVars,
                 srvVars, now, orph>>

LastIndexOf(s, id) ==
  CHOOSE i \in 1..Len(s) : s[i].id = id /\ \A j \in (i + 1)..Len(s) : s[j].id # id

\* merge of fresh head-of-list rows into the loaded list
Merge(old, rows) ==
  LET fresh == SelectSeq(rows, LAMBDA r : r.id \notin Ids(old))
      rowOf(id) == rows[CHOOSE k \in 1..Len(rows) : rows[k].id = id]
      upd == [i \in 1..Len(old) |->
                IF old[i].id \in Ids(rows) /\ i = LastIndexOf(old, old[i].id)
                THEN [old[i] EXCEPT !.read_at = rowOf(old[i].id).read_at,
                                    !.starred_at = rowOf(old[i].id).starred_at]
                ELSE old[i]]
  IN fresh \o upd

SilentRefreshOk(s) ==
  /\ net[s].op = "silentRefresh"
  /\ LET rows == RpcRows(net[s])
     IN IF net[s].dir = "merge"
        THEN /\ entries' = Merge(entries, rows)
             /\ net' = [net EXCEPT ![s] = NoReq]
             /\ UNCHANGED <<hasMore, searchOffset, orph>>
        ELSE /\ entries' = rows
             /\ hasMore' = (Len(rows) >= entriesPerPage)
             /\ searchOffset' = IF net[s].f.type = "search"
                                THEN (currentPage - 1) * entriesPerPage + Len(rows)
                                ELSE searchOffset
             /\ net' = [DetachNet(net) EXCEPT ![s] = NoReq]
             /\ orph' = Gc(net', DetachOrph(net, orph))
  /\ hist' = "x"
  /\ UNCHANGED <<selectedEntryId, loading, loadingMore, filter, error, currentPage,
                 pageCursors, markReadTimer, uiVars, shellVars, countVars, srvVars, now>>

SilentRefreshErr(s) ==
  /\ net[s].op = "silentRefresh"
  /\ net' = [net EXCEPT ![s] = NoReq]
  /\ hist' = "x"
  /\ UNCHANGED <<storeVars, uiVars, shellVars, countVars, srvVars, now, orph>>

\* ------------------------------------------------------ aggregate stores
\* mutant: the feed counter is not clamped
updateUnreadCountUnclamped(uc, feedId, delta) ==
  [uc EXCEPT ![feedId] = @ + delta]

updateUnreadCount(uc, feedId, delta) ==
  [uc EXCEPT ![feedId] = Max(0, @ + delta)]

updateCategoryUnreadCount(cc, feedId, delta) ==
  [cc EXCEPT ![CatOf(feedId)] = Max(0, @ + delta)]

updateUnreadCountForFeed(gc, feedId, delta) ==
  [g \in Groups |-> IF feedId \in feedsByGroup(g) THEN Max(0, gc[g] + delta) ELSE gc[g]]

\* mutant: the group store is not told
PropagateSkipsGroups(feedId, delta) ==
  /\ unread_count' = updateUnreadCount(unread_count, feedId, delta)
  /\ categoryUnreadCounts' = updateCategoryUnreadCount(categoryUnreadCounts, feedId, delta)
  /\ UNCHANGED group_unread_count

\* no counter a +1 for this feed touches has reached the modelled maximum
Headroom(feedId) ==
  /\ unread_count[feedId] < MaxCount
  /\ categoryUnreadCounts[CatOf(feedId)] < MaxCount
  /\ \A g \in GroupsOf(feedId) : group_unread_count[g] < MaxCount

\* the three calls every read-state change of one entry makes
Propagate(feedId, delta) ==
  /\ unread_count' = updateUnreadCount(unread_count, feedId, delta)
  /\ categoryUnreadCounts' = updateCategoryUnreadCount(categoryUnreadCounts, feedId, delta)
  /\ group_unread_count' = updateUnreadCountForFeed(group_unread_count, feedId, delta)

\* assignment to a field of the entry object a continuation captured
SetObj(s, fld, v) ==
  /\ net' = [net EXCEPT ![s] = NoReq]
  /\ IF net[s].cap = 0
     THEN /\ entries' = [entries EXCEPT ![IndexOf(entries, net[s].id)][fld] = v]
          /\ orph' = Gc(net', orph)
     ELSE /\ orph' = Gc(net', [orph EXCEPT ![net[s].cap][fld] = v])
          /\ UNCHANGED entries

Upsert(op, id, v) == Req(op, FAll, NULL, NULL, 0, 0, id, v, 0, "")

UpsertErr(s, op, msg) ==
  /\ net[s].op = op
  /\ error' = msg
  /\ net' = [net EXCEPT ![s] = NoReq]
  /\ orph' = Gc(net', orph)
  /\ UNCHANGED <<entries, selectedEntryId, loading, loadingMore, hasMore, filter,
                 searchOffset, currentPage, pageCursors, markReadTimer, uiVars, shellVars,
                 countVars, srvVars, now, hist>>

\* ---------------------------------------------------------------- markRead
MarkRead(id) ==
  /\ id \in Ids(entries)
  /\ entries[IndexOf(entries, id)].read_at = NULL
  /\ FreeSlots(net) # {}
  /\ error' = NoError
  /\ net' = Send(net, Upsert("markRead", id, now))
  /\ UNCHANGED <<entries, selectedEntryId, loading, loadingMore, hasMore, filter,
                 searchOffset, currentPage, pageCursors, markReadTimer, uiVars, shellVars,
                 countVars, srvVars, now, orph, hist>>

MarkReadOk(s) ==
  /\ net[s].op = "markRead"
  /\ srvReadAt' = [srvReadAt EXCEPT ![net[s].id] = net[s].val]
  /\ SetObj(s, "read_at", net[s].val)
  /\ Propagate(FeedOf(net[s].id), -1)
  /\ UNCHANGED <<selectedEntryId, loading, loadingMore, hasMore, filter, error,
                 searchOffset, currentPage, pageCursors, markReadTimer, uiVars, shellVars,
                 srvStarredAt, now, hist>>

MarkReadErr(s) == UpsertErr(s, "markRead", "Failed to mark entry as read")

\* -------------------------------------------------------------- toggleRead
ToggleRead(id) ==
  /\ id \in Ids(entries)
  /\ FreeSlots(net) # {}
  /\ error' = NoError
  /\ net' = Send(net, Upsert("toggleRead", id,
                             IF entries[IndexOf(entries, id)].read_at # NULL
                             THEN NULL ELSE now))
  /\ UNCHANGED <<entries, selectedEntryId, loading, loadingMore, hasMore, filter,
                 searchOffset, currentPage, pageCursors, markReadTimer, uiVars, shellVars,
                 countVars, srvVars, now, orph, hist>>

ToggleReadOk(s) ==
  /\ net[s].op = "toggleRead"
  /\ Obj(net[s]).read_at # NULL => Headroom(FeedOf(net[s].id))
  /\ srvReadAt' = [srvReadAt EXCEPT ![net[s].id] = net[s].val]
  /\ Propagate(FeedOf(net[s].id), IF Obj(net[s]).read_at # NULL THEN 1 ELSE -1)
  /\ SetObj(s, "read_at", net[s].val)
  /\ UNCHANGED <<selectedEntryId, loading, loadingMore, hasMore, filter, error,
                 searchOffset, currentPage, pageCursors, markReadTimer, uiVars, shellVars,
                 srvStarredAt, now, hist>>

ToggleReadErr(s) == UpsertErr(s, "toggleRead", "Failed to toggle read status")

\* -------------------------------------------------------------- toggleStar
ToggleStar(id) ==
  /\ id \in Ids(entries)
  /\ FreeSlots(net) # {}
  /\ error' = NoError
  /\ IF entries[IndexOf(entries, id)].starred_at # NULL
     THEN /\ net' = Send(net, Upsert("toggleStar", id, NULL))
          /\ UNCHANGED now
     ELSE /\ now < MaxNow
          /\ now' = now + 1
          /\ net' = Send(net, Upsert("toggleStar", id, now'))
  /\ UNCHANGED <<entries, selectedEntryId, loading, loadingMore, hasMore, filter,
                 searchOffset, currentPage, pageCursors, markReadTimer, uiVars, shellVars,
                 countVars, srvVars, orph, hist>>

ToggleStarOk(s) ==
  /\ net[s].op = "toggleStar"
  /\ srvStarredAt' = [srvStarredAt EXCEPT ![net[s].id] = net[s].val]
  /\ SetObj(s, "starred_at", net[s].val)
  /\ UNCHANGED <<selectedEntryId, loading, loadingMore, hasMore, filter, error,
                 searchOffset, currentPage, pageCursors, markReadTimer, uiVars, shellVars,
                 countVars, srvReadAt, now, hist>>

ToggleStarErr(s) == UpsertErr(s, "toggleStar", "Failed to toggle star")


\* ------------------------------------------------------ bulk mark-as-read
\* rows a mark_*_as_read procedure stamps on the server
InScope(f, e) ==
  CASE f.type = "feed" -> FeedOf(e) = f.arg
    [] f.type = "group" -> FeedOf(e) \in feedsByGroup(f.arg)
    [] f.type = "category" -> CatOf(FeedOf(e)) = f.arg
    [] OTHER -> TRUE

Bulk(op, f) == Req(op, f, NULL, NULL, 0, 0, NULL, NULL, 0, "")

BulkServer(s) ==
  srvReadAt' = [e \in EntryIds |->
                  IF InScope(net[s].f, e) /\ srvReadAt[e] = NULL
                  THEN now ELSE srvReadAt[e]]

StampEverything(S) ==
  [i \in 1..Len(entries) |->
     IF entries[i].read_at = NULL
     THEN [entries[i] EXCEPT !.read_at = now] ELSE entries[i]]

\* stamp every loaded unread entry whose id is in S
Stamp(S) ==
  [i \in 1..Len(entries) |->
     IF entries[i].id \in S /\ entries[i].read_at = NULL
     THEN [entries[i] EXCEPT !.read_at = now] ELSE entries[i]]

BulkErr(s, op, msg) ==
  /\ net[s].op = op
  /\ error' = msg
  /\ net' = [net EXCEPT ![s] = NoReq]
  /\ UNCHANGED <<entries, selectedEntryId, loading, loadingMore, hasMore, filter,
                 searchOffset, currentPage, pageCursors, markReadTimer, uiVars, shellVars,
                 countVars, srvVars, now, orph, hist>>

BulkFrame ==
  UNCHANGED <<selectedEntryId, loading, loadingMore, hasMore, filter, error,
              searchOffset, currentPage, pageCursors, markReadTimer, uiVars, shellVars,
              srvStarredAt, now, orph, hist>>

MarkAllRead ==
  /\ FreeSlots(net) # {}
  /\ error' = NoError
  /\ net' = Send(net, Bulk("markAllRead",
                           IF filter.type \in {"feed", "group", "category"}
                           THEN Flt(filter.type, filter.arg, FALSE) ELSE FAll))
  /\ UNCHANGED <<entries, selectedEntryId, loading, loadingMore, hasMore, filter,
                 searchOffset, currentPage, pageCursors, markReadTimer, uiVars, shellVars,
                 countVars, srvVars, now, orph, hist>>

\* for (const entry of entries.value) if (!entry.read_at) { three updates of -1 }
RECURSIVE AllReadLoop(_, _)
AllReadLoop(i, acc) ==
  IF i > Len(entries) THEN acc
  ELSE IF entries[i].read_at # NULL THEN AllReadLoop(i + 1, acc)
  ELSE LET fd == FeedOf(entries[i].id)
       IN AllReadLoop(i + 1,
            [uc |-> updateUnreadCount(acc.uc, fd, -1),
             cc |-> updateCategoryUnreadCount(acc.cc, fd, -1),
             gc |-> updateUnreadCountForFeed(acc.gc, fd, -1)])

MarkAllReadOk(s) ==
  /\ net[s].op = "markAllRead"
  /\ BulkServer(s)
  /\ LET res == AllReadLoop(1, [uc |-> unread_count, cc |-> categoryUnreadCounts,
                                gc |-> group_unread_count])
     IN /\ unread_count' = res.uc
        /\ categoryUnreadCounts' = res.cc
        /\ group_unread_count' = res.gc
  /\ entries' = Stamp(EntryIds)
  /\ net' = [net EXCEPT ![s] = NoReq]
  /\ BulkFrame

MarkAllReadErr(s) == BulkErr(s, "markAllRead", "Failed to mark all entries as read")

MarkFeedAsRead(feedId) ==
  /\ FreeSlots(net) # {}
  /\ net' = Send(net, Bulk("markFeedAsRead", Flt("feed", feedId, FALSE)))
  /\ UNCHANGED <<storeVars, uiVars, shellVars, countVars, srvVars, now, orph, hist>>

MarkFeedAsReadOk(s) ==
  /\ net[s].op = "markFeedAsRead"
  /\ BulkServer(s)
  /\ LET feedId == net[s].f.arg
         oldCount == unread_count[feedId]
     IN /\ Propagate(feedId, -oldCount)
        /\ entries' = Stamp({e \in EntryIds : FeedOf(e) = feedId})
  /\ net' = [net EXCEPT ![s] = NoReq]
  /\ BulkFrame

MarkFeedAsReadErr(s) == BulkErr(s, "markFeedAsRead", "Failed to mark feed as read")

MarkGroupAsRead(groupId) ==
  /\ FreeSlots(net) # {}
  /\ net' = Send(net, Bulk("markGroupAsRead", Flt("group", groupId, FALSE)))
  /\ UNCHANGED <<storeVars, uiVars, shellVars, countVars, srvVars, now, orph, hist>>

\* for (const fid of feedIds) { feed count and category count by -oldCount }
RECURSIVE GroupLoop(_, _)
GroupLoop(S, acc) ==
  IF S = {} THEN acc
  ELSE LET fid == CHOOSE x \in S : TRUE
           oldCount == acc.uc[fid]
       IN GroupLoop(S \ {fid},
            [uc |-> updateUnreadCount(acc.uc, fid, -oldCount),
             cc |-> updateCategoryUnreadCount(acc.cc, fid, -oldCount)])

MarkGroupAsReadOk(s) ==
  /\ net[s].op = "markGroupAsRead"
  /\ BulkServer(s)
  /\ LET groupId == net[s].f.arg
         res == GroupLoop(feedsByGroup(groupId),
                          [uc |-> unread_count, cc |-> categoryUnreadCounts])
     IN /\ unread_count' = res.uc
        /\ categoryUnreadCounts' = res.cc
        /\ group_unread_count' = [group_unread_count EXCEPT ![groupId] = 0]
        /\ entries' = Stamp({e \in EntryIds : FeedOf(e) \in feedsByGroup(groupId)})
  /\ net' = [net EXCEPT ![s] = NoReq]
  /\ BulkFrame

MarkGroupAsReadErr(s) == BulkErr(s, "markGroupAsRead", "Failed to mark group as read")

MarkCategoryAsRead(category) ==
  /\ FreeSlots(net) # {}
  /\ net' = Send(net, Bulk("markCategoryAsRead", Flt("category", category, FALSE)))
  /\ UNCHANGED <<storeVars, uiVars, shellVars, countVars, srvVars, now, orph, hist>>

\* for (const feed of feedsInCat) { group counts, then feed count, by -count }
RECURSIVE CategoryLoop(_, _)
CategoryLoop(S, acc) ==
  IF S = {} THEN acc
  ELSE LET fid == CHOOSE x \in S : TRUE
           cnt == acc.uc[fid]
       IN CategoryLoop(S \ {fid},
            [gc |-> updateUnreadCountForFeed(acc.gc, fid, -cnt),
             uc |-> updateUnreadCount(acc.uc, fid, -cnt)])

MarkCategoryAsReadOk(s) ==
  /\ net[s].op = "markCategoryAsRead"
  /\ BulkServer(s)
  /\ LET category == net[s].f.arg
         res == CategoryLoop(feedsByCategory(category),
                             [gc |-> group_unread_count, uc |-> unread_count])
     IN /\ unread_count' = res.uc
        /\ group_unread_count' = res.gc
        /\ categoryUnreadCounts' = [categoryUnreadCounts EXCEPT ![category] = 0]
        /\ entries' = Stamp({e \in EntryIds : CatOf(FeedOf(e)) = category})
  /\ net' = [net EXCEPT ![s] = NoReq]
  /\ BulkFrame

MarkCategoryAsReadErr(s) ==
  BulkErr(s, "markCategoryAsRead", "Failed to mark category as read")

\* ------------------------------------------------------------ timer heap
\* The browser's pending setTimeout callbacks.  A timer is the handle that
\* setTimeout returned, the closure it will run and the values the closure
\* captured (an entry id for markRead, a query for the search debounce).
Timer(h, kind, id, q) == [h |-> h, kind |-> kind, id |-> id, q |-> q]

\* the call sites of setTimeout
TimerKinds == <<"markRead", "search", "dbSave", "recovery">>
KindIndex(kind) == CHOOSE i \in 1..Len(TimerKinds) : TimerKinds[i] = kind

\* setTimeout hands out an id it never handed out to a timer that is still
\* pending; ids are opaque, so each call site draws the smallest free one of
\* its own residue class, which keeps them unique and independent of the
\* order in which unrelated timers were armed
FreshHandle(T, kind) ==
  LET used == {t.h : t \in T}
      ids == {KindIndex(kind) + Len(TimerKinds) * n : n \in 0..Cardinality(T)}
  IN CHOOSE h \in ids : h \notin used /\ \A k \in ids : k < h => k \in used

setTimeout(T, h, kind, id, q) == T \cup {Timer(h, kind, id, q)}

\* clearing a handle whose timer already ran, or null, changes nothing
clearTimeout(T, h) == {t \in T : t.h # h}

Pending(kind) == {t \in timers : t.kind = kind}

\* ------------------------------------------------------- selection and ui
SelectEntryKeepsTimer(id) ==
  /\ selectedEntryId' = id
  /\ IF id # NULL
     THEN LET h == FreshHandle(timers, "markRead")
          IN /\ markReadTimer' = h
             /\ timers' = setTimeout(timers, h, "markRead", id, "")
     ELSE /\ markReadTimer' = NULL
          /\ timers' = timers
  /\ readerOpen' = (id # NULL)
  /\ UNCHANGED <<entries, loading, loadingMore, hasMore, filter, error, searchOffset,
                 currentPage, pageCursors, paginationMode, entriesPerPage, countVars,
                 srvVars, now, net, orph, hist, syncVars, searchVars, recoveryVars>>

SelectEntry(id) ==
  /\ selectedEntryId' = id
  /\ LET cleared == clearTimeout(timers, markReadTimer)
     IN IF id # NULL
        THEN LET h == FreshHandle(cleared, "markRead")
             IN /\ markReadTimer' = h
                /\ timers' = setTimeout(cleared, h, "markRead", id, "")
        ELSE /\ markReadTimer' = NULL
             /\ timers' = cleared
  /\ readerOpen' = (id # NULL)
  /\ UNCHANGED <<entries, loading, loadingMore, hasMore, filter, error, searchOffset,
                 currentPage, pageCursors, paginationMode, entriesPerPage, countVars,
                 srvVars, now, net, orph, hist, syncVars, searchVars, recoveryVars>>

\* the one-second timer armed by selectEntry fires and runs markRead(id);
\* the handle variable keeps the id of the timer that ran
MarkReadTimerFires(t) ==
  /\ t \in Pending("markRead")
  /\ timers' = timers \ {t}
  /\ IF t.id \in Ids(entries)
        /\ entries[IndexOf(entries, t.id)].read_at = NULL
     THEN /\ FreeSlots(net) # {}
          /\ error' = NoError
          /\ net' = Send(net, Upsert("markRead", t.id, now))
     ELSE UNCHANGED <<error, net>>
  /\ UNCHANGED <<entries, selectedEntryId, loading, loadingMore, hasMore, filter,
                 searchOffset, currentPage, pageCursors, markReadTimer, uiVars,
                 countVars, srvVars, now, orph, hist, syncVars, searchVars,
                 recoveryVars>>

closeReader ==
  /\ readerOpen
  /\ readerOpen' = FALSE
  /\ UNCHANGED <<storeVars, paginationMode, entriesPerPage, countVars, srvVars, now,
                 net, orph, hist, shellVars>>

\* findIndex of the selected entry, counted from 1; 0 stands for -1
selectedIndex ==
  IF selectedEntryId = NULL \/ selectedEntryId \notin Ids(entries) THEN 0
  ELSE IndexOf(entries, selectedEntryId)

selectNext ==
  /\ Len(entries) # 0
  /\ LET currentIndex == selectedIndex
     IN IF currentIndex = 0 THEN SelectEntry(entries[1].id)
        ELSE /\ currentIndex < Len(entries)
             /\ SelectEntry(entries[currentIndex + 1].id)

selectPrevious ==
  /\ Len(entries) # 0
  /\ LET currentIndex == selectedIndex
     IN /\ currentIndex > 1
        /\ SelectEntry(entries[currentIndex - 1].id)

\* ------------------------------------------------ settings persistence
\* the user_settings columns behind the two synced settings of this model
Settings(mode, count) == [pagination_mode |-> mode, entries_per_page |-> count]
SettingsRows == {Settings(mode, count) : mode \in {"infinite", "paginated"},
                                         count \in PageSizes}
DefaultEntriesPerPage == 25

getSyncedSnapshot == Settings(paginationMode, entriesPerPage)

\* the handle variable and the heap as _scheduleDatabaseSave leaves them
Sched(T, h) == [timers |-> T, dbSaveTimer |-> h]

scheduleDatabaseSave(enabled, ts) ==
  IF ~enabled THEN ts
  ELSE LET cleared == clearTimeout(ts.timers, ts.dbSaveTimer)
           h == FreshHandle(cleared, "dbSave")
       IN Sched(setTimeout(cleared, h, "dbSave", NULL, ""), h)

\* The watchers of the synced refs.  A watcher is queued when its ref is
\* assigned a different value and runs when the synchronous code that made
\* the assignment has returned, so it reads _dbSyncEnabled as that code left
\* it: `enabled` is the flag at that moment, `changed` the number of refs
\* whose value changed.
RunWatchers(changed, enabled, ts) ==
  IF changed = 0 THEN ts
  ELSE IF changed = 1 THEN scheduleDatabaseSave(enabled, ts)
  ELSE scheduleDatabaseSave(enabled, scheduleDatabaseSave(enabled, ts))

setPaginationMode(mode) ==
  /\ mode # paginationMode
  /\ paginationMode' = mode
  /\ LET ts == RunWatchers(1, dbSyncEnabled, Sched(timers, dbSaveTimer))
     IN timers' = ts.timers /\ dbSaveTimer' = ts.dbSaveTimer
  /\ UNCHANGED <<storeVars, readerOpen, entriesPerPage, countVars, srvVars, now, net,
                 orph, hist, dbSyncEnabled, settingsLoaded, dbLoads, dbSaves,
                 srvSettings, searchVars, recoveryVars>>

setEntriesPerPage(count) ==
  /\ count # entriesPerPage
  /\ entriesPerPage' = count
  /\ LET ts == RunWatchers(1, dbSyncEnabled, Sched(timers, dbSaveTimer))
     IN timers' = ts.timers /\ dbSaveTimer' = ts.dbSaveTimer
  /\ UNCHANGED <<storeVars, readerOpen, paginationMode, countVars, srvVars, now, net,
                 orph, hist, dbSyncEnabled, settingsLoaded, dbLoads, dbSaves,
                 srvSettings, searchVars, recoveryVars>>

\* the debounce timer fires: the closure starts and awaits getSession()
DbSaveTimerFires(t) ==
  /\ t \in Pending("dbSave")
  /\ dbSaves < MaxInflight
  /\ timers' = timers \ {t}
  /\ dbSaves' = dbSaves + 1
  /\ UNCHANGED <<storeVars, uiVars, countVars, srvVars, now, net, orph, hist,
                 dbSyncEnabled, dbSaveTimer, settingsLoaded, dbLoads, srvSettings,
                 searchVars, recoveryVars>>

\* getSession() resolved: without a session the closure returns, otherwise
\* it sends the snapshot taken now; the row is written when the update lands
\* and a failed update is only logged
DbSaveWrite(session, ok) ==
  /\ dbSaves > 0
  /\ dbSaves' = dbSaves - 1
  /\ srvSettings' = IF session /\ ok THEN getSyncedSnapshot ELSE srvSettings
  /\ UNCHANGED <<storeVars, uiVars, countVars, srvVars, now, net, orph, hist, timers,
                 dbSyncEnabled, dbSaveTimer, settingsLoaded, dbLoads, searchVars,
                 recoveryVars>>

\* loadSettingsFromDB up to its await: the select is on its way
LoadSettingsFromDB ==
  /\ dbLoads < MaxInflight
  /\ dbLoads' = dbLoads + 1
  /\ UNCHANGED <<storeVars, uiVars, countVars, srvVars, now, net, orph, hist, timers,
                 dbSyncEnabled, dbSaveTimer, settingsLoaded, dbSaves, srvSettings,
                 searchVars, recoveryVars>>

\* The select returned the row.  _dbSyncEnabled is false while the values
\* are assigned and true again before the function returns; the watchers of
\* the refs that changed run after that.
LoadSettingsOk ==
  /\ dbLoads > 0
  /\ dbLoads' = dbLoads - 1
  /\ settingsLoaded' = TRUE
  /\ dbSyncEnabled' = TRUE
  /\ LET data == srvSettings
         mode == IF data.pagination_mode = "" THEN "infinite" ELSE data.pagination_mode
         count == IF data.entries_per_page = NULL THEN DefaultEntriesPerPage
                  ELSE data.entries_per_page
         changed == (IF mode # paginationMode THEN 1 ELSE 0)
                    + (IF count # entriesPerPage THEN 1 ELSE 0)
         ts == RunWatchers(changed, dbSyncEnabled', Sched(timers, dbSaveTimer))
     IN /\ paginationMode' = mode
        /\ entriesPerPage' = count
        /\ timers' = ts.timers
        /\ dbSaveTimer' = ts.dbSaveTimer
  /\ UNCHANGED <<storeVars, readerOpen, countVars, srvVars, now, net, orph, hist,
                 dbSaves, srvSettings, searchVars, recoveryVars>>

LoadSettingsErr ==
  /\ dbLoads > 0
  /\ dbLoads' = dbLoads - 1
  /\ dbSyncEnabled' = TRUE
  /\ settingsLoaded' = TRUE
  /\ UNCHANGED <<storeVars, uiVars, countVars, srvVars, now, net, orph, hist, timers,
                 dbSaveTimer, dbSaves, srvSettings, searchVars, recoveryVars>>

resetSyncState ==
  /\ dbSyncEnabled \/ settingsLoaded \/ dbSaveTimer # NULL
  /\ dbSyncEnabled' = FALSE
  /\ settingsLoaded' = FALSE
  /\ timers' = clearTimeout(timers, dbSaveTimer)
  /\ dbSaveTimer' = NULL
  /\ UNCHANGED <<storeVars, uiVars, countVars, srvVars, now, net, orph, hist, dbLoads,
                 dbSaves, srvSettings, searchVars, recoveryVars>>

\* ------------------------------------------------------ debounced search
\* the strings typed into the search box, and String.prototype.trim on them
Queries == {"", " ", "a ", "b"}
Trim(q) == CASE q = " " -> ""
             [] q = "a " -> "a"
             [] OTHER -> q
NoCallback == "none"

\* v-model assigns searchQuery and the watcher runs
SetSearchQuery(newQuery) ==
  /\ mounted
  /\ newQuery # searchQuery
  /\ searchQuery' = newQuery
  /\ LET cleared == clearTimeout(timers, debounceTimer)
     IN IF Trim(newQuery) = ""
        THEN /\ isSearching' = FALSE
             /\ lastCallback' = ""
             /\ debounceTimer' = NULL
             /\ timers' = cleared
        ELSE LET h == FreshHandle(cleared, "search")
             IN /\ isSearching' = TRUE
                /\ debounceTimer' = h
                /\ timers' = setTimeout(cleared, h, "search", NULL, Trim(newQuery))
                /\ UNCHANGED lastCallback
  /\ UNCHANGED <<storeVars, uiVars, countVars, srvVars, now, net, orph, hist, mounted,
                 syncVars, recoveryVars>>

\* the 300 ms timer fires: the callback gets the trimmed query it captured
DebounceTimerFires(t) ==
  /\ t \in Pending("search")
  /\ timers' = timers \ {t}
  /\ lastCallback' = t.q
  /\ isSearching' = FALSE
  /\ UNCHANGED <<storeVars, uiVars, countVars, srvVars, now, net, orph, hist,
                 searchQuery, debounceTimer, mounted, syncVars, recoveryVars>>

Unmount ==
  /\ mounted
  /\ mounted' = FALSE
  /\ timers' = clearTimeout(timers, debounceTimer)
  /\ debounceTimer' = NULL
  /\ UNCHANGED <<storeVars, uiVars, countVars, srvVars, now, net, orph, hist,
                 searchQuery, isSearching, lastCallback, syncVars, recoveryVars>>

\* --------------------------------------------------- tab-return recovery
\* refetchAllData as the entry store sees it: silentRefresh up to its await
\* (fetchFeeds and fetchGroups reload stores whose rows are fixed here)
refetchAllData(session) ==
  IF session /\ SilentRefreshAllowed
  THEN /\ FreeSlots(net) # {}
       /\ SilentRefreshCall
  ELSE UNCHANGED <<net, searchOffset, hist>>

scheduleRecovery ==
  /\ ~pendingRecovery
  /\ recoveriesScheduled < MaxRecoveries
  /\ pendingRecovery' = TRUE
  /\ LET h == FreshHandle(timers, "recovery")
     IN /\ recoveryTimer' = h
        /\ timers' = setTimeout(timers, h, "recovery", NULL, "")
  /\ recoveriesScheduled' = recoveriesScheduled + 1
  /\ UNCHANGED <<storeVars, uiVars, countVars, srvVars, now, net, orph, hist,
                 refetchCalls, syncVars, searchVars>>

handleOnline == scheduleRecovery

\* the tab became visible again; the time it was hidden and the feed
\* store's error are inputs
handleVisibilityChange(staleEnough, feedError) ==
  /\ feedError \/ error # NoError \/ staleEnough
  /\ scheduleRecovery

\* the 2-second fallback timer fires
RecoveryTimerFires(t, session) ==
  /\ t \in Pending("recovery")
  /\ timers' = timers \ {t}
  /\ IF pendingRecovery
     THEN /\ pendingRecovery' = FALSE
          /\ refetchCalls' = refetchCalls + 1
          /\ refetchAllData(session)
     ELSE UNCHANGED <<pendingRecovery, refetchCalls, net, searchOffset, hist>>
  /\ UNCHANGED <<entries, selectedEntryId, loading, loadingMore, hasMore, filter, error,
                 currentPage, pageCursors, markReadTimer, uiVars, countVars, srvVars,
                 now, orph, recoveryTimer, recoveriesScheduled, syncVars, searchVars>>

TokenRefreshedKeepsTimer(session) ==
  /\ pendingRecovery
  /\ pendingRecovery' = FALSE
  /\ refetchCalls' = refetchCalls + 1
  /\ refetchAllData(session)
  /\ UNCHANGED <<entries, selectedEntryId, loading, loadingMore, hasMore, filter, error,
                 currentPage, pageCursors, markReadTimer, uiVars, countVars, srvVars,
                 now, orph, timers, recoveryTimer, recoveriesScheduled, syncVars,
                 searchVars>>

\* TOKEN_REFRESHED incremented tokenRefreshCount and the watcher runs
TokenRefreshed(session) ==
  /\ pendingRecovery
  /\ pendingRecovery' = FALSE
  /\ timers' = clearTimeout(timers, recoveryTimer)
  /\ recoveryTimer' = NULL
  /\ refetchCalls' = refetchCalls + 1
  /\ refetchAllData(session)
  /\ UNCHANGED <<entries, selectedEntryId, loading, loadingMore, hasMore, filter, error,
                 currentPage, pageCursors, markReadTimer, uiVars, countVars, srvVars,
                 now, orph, recoveriesScheduled, syncVars, searchVars>>

\* ------------------------------------------------------------------- Init
\* unread counts as the get_unread_counts / get_category_unread_counts /
\* get_group_unread_counts procedures report them for the stored rows
UnreadIn(S, rd) == Cardinality({e \in EntryIds : FeedOf(e) \in S /\ rd[e] = NULL})

Init ==
  /\ entries = <<>>
  /\ selectedEntryId = NULL
  /\ loading = FALSE
  /\ loadingMore = FALSE
  /\ hasMore = FALSE
  /\ filter = FAll
  /\ error = NoError
  /\ searchOffset = 0
  /\ currentPage = 1
  /\ pageCursors = <<NoCursor>>
  /\ markReadTimer = NULL
  /\ readerOpen = FALSE
  /\ paginationMode \in {"infinite", "paginated"}
  /\ entriesPerPage \in PageSizes
  /\ srvReadAt \in [EntryIds -> {NULL, 1}]
  /\ srvStarredAt \in [EntryIds -> {NULL, 1}]
  /\ unread_count = [fd \in Feeds |-> UnreadIn({fd}, srvReadAt)]
  /\ categoryUnreadCounts = [c \in Categories |-> UnreadIn(feedsByCategory(c), srvReadAt)]
  /\ group_unread_count = [g \in Groups |-> UnreadIn(feedsByGroup(g), srvReadAt)]
  /\ now = 1
  /\ net = [s \in Slots |-> NoReq]
  /\ orph = [k \in Slots |-> NoObj]
  /\ hist = "x"
  /\ timers = {}
  /\ dbSyncEnabled = FALSE
  /\ dbSaveTimer = NULL
  /\ settingsLoaded = FALSE
  /\ dbLoads = 0
  /\ dbSaves = 0
  /\ srvSettings \in SettingsRows
  /\ searchQuery = ""
  /\ isSearching = FALSE
  /\ debounceTimer = NULL
  /\ lastCallback = NoCallback
  /\ mounted = TRUE
  /\ pendingRecovery = FALSE
  /\ recoveryTimer = NULL
  /\ recoveriesScheduled = 0
  /\ refetchCalls = 0

\* ------------------------------------------------------------------- Next
EntriesOps(FS) ==
  \/ \E F \in FS : FetchEntries(F)
  \/ \E s \in Slots : FetchEntriesOk(s)
  \/ \E s \in Slots : FetchEntriesErr(s)

MoreOps ==
  \/ FetchMore
  \/ \E s \in Slots : FetchMoreOk(s)
  \/ \E s \in Slots : FetchMoreErr(s)

PageOps ==
  \/ FetchPageNextEmpty
  \/ FetchPageNext
  \/ FetchPagePrev
  \/ \E s \in Slots : FetchPageOk(s)
  \/ \E s \in Slots : FetchPageErr(s)

RefreshOps ==
  \/ SilentRefresh
  \/ \E s \in Slots : SilentRefreshOk(s)
  \/ \E s \in Slots : SilentRefreshErr(s)

ReadOps ==
  \/ \E id \in EntryIds : MarkRead(id)
  \/ \E s \in Slots : MarkReadOk(s)
  \/ \E s \in Slots : MarkReadErr(s)
  \/ \E id \in EntryIds : ToggleRead(id)
  \/ \E s \in Slots : ToggleReadOk(s)
  \/ \E s \in Slots : ToggleReadErr(s)

StarOps ==
  \/ \E id \in EntryIds : ToggleStar(id)
  \/ \E s \in Slots : ToggleStarOk(s)
  \/ \E s \in Slots : ToggleStarErr(s)

BulkOpsNext ==
  \/ MarkAllRead
  \/ \E s \in Slots : MarkAllReadOk(s)
  \/ \E s \in Slots : MarkAllReadErr(s)
  \/ \E fd \in Feeds : MarkFeedAsRead(fd)
  \/ \E s \in Slots : MarkFeedAsReadOk(s)
  \/ \E s \in Slots : MarkFeedAsReadErr(s)
  \/ \E g \in Groups : MarkGroupAsRead(g)
  \/ \E s \in Slots : MarkGroupAsReadOk(s)
  \/ \E s \in Slots : MarkGroupAsReadErr(s)
  \/ \E c \in Categories : MarkCategoryAsRead(c)
  \/ \E s \in Slots : MarkCategoryAsReadOk(s)
  \/ \E s \in Slots : MarkCategoryAsReadErr(s)

SelectOps ==
  \/ \E id \in Ids(entries) \cup {NULL} : SelectEntry(id)
  \/ closeReader

NavOps ==
  \/ selectNext
  \/ selectPrevious

TimerOps == \E t \in timers : MarkReadTimerFires(t)

ConfigOps ==
  \/ \E mode \in {"infinite", "paginated"} : setPaginationMode(mode)
  \/ \E count \in PageSizes : setEntriesPerPage(count)

SyncOps ==
  \/ LoadSettingsFromDB
  \/ LoadSettingsOk
  \/ LoadSettingsErr
  \/ resetSyncState
  \/ \E t \in timers : DbSaveTimerFires(t)
  \/ \E session, ok \in BOOLEAN : DbSaveWrite(session, ok)

SearchOps ==
  \/ \E q \in Queries : SetSearchQuery(q)
  \/ \E t \in timers : DebounceTimerFires(t)
  \/ Unmount

RecoveryOps ==
  \/ handleOnline
  \/ \E staleEnough, feedError \in BOOLEAN : handleVisibilityChange(staleEnough, feedError)
  \/ \E t \in timers, session \in BOOLEAN : RecoveryTimerFires(t, session)
  \/ \E session \in BOOLEAN : TokenRefreshed(session)

\* the whole store, every operation with every input
Next ==
  \/ EntriesOps(Filters) \/ MoreOps \/ PageOps \/ RefreshOps
  \/ ReadOps \/ StarOps \/ BulkOpsNext
  \/ SelectOps \/ NavOps \/ TimerOps \/ ConfigOps
  \/ SyncOps \/ SearchOps \/ RecoveryOps

Spec == Init /\ [][Next]_vars

\* ---------------------------------------------------- checked fragments
\* Each specification below runs a subset of the operations from a subset
\* of the initial states, small enough to explore exhaustively.

\* a fixed remote data set: nothing read, the two oldest entries starred
InitFixed ==
  /\ Init
  /\ srvReadAt = [e \in EntryIds |-> NULL]
  /\ srvStarredAt = [e \in EntryIds |-> IF e <= 2 THEN 1 ELSE NULL]
  /\ entriesPerPage = 2
  /\ srvSettings = getSyncedSnapshot

InitFetch == InitFixed /\ paginationMode = "infinite"

\* infinite scroll under two overlapping filters
NextMore == EntriesOps({FAll, FFeed}) \/ MoreOps
SpecMore == InitFetch /\ [][NextMore]_vars

\* fetching under two overlapping filters
NextFetch == EntriesOps({FAll, FFeed}) \/ MoreOps \/ PageOps \/ RefreshOps
SpecFetch == InitFetch /\ [][NextFetch]_vars

InitReset == InitFixed /\ paginationMode = "paginated"

\* single-entry read and star mutations on the loaded list
NextMark == EntriesOps({FAll}) \/ ReadOps \/ StarOps
InitMark ==
  /\ Init
  /\ srvReadAt = [e \in EntryIds |-> NULL]
  /\ srvStarredAt = [e \in EntryIds |-> NULL]
  /\ entriesPerPage = 1
  /\ paginationMode = "infinite"
  /\ srvSettings = getSyncedSnapshot

SpecMark == InitMark /\ [][NextMark]_vars

\* unread counters under single-entry and bulk marking, from any server state
InitCount ==
  /\ Init
  /\ srvStarredAt = [e \in EntryIds |-> NULL]
  /\ entriesPerPage = 1
  /\ paginationMode = "infinite"
  /\ srvSettings = getSyncedSnapshot

NextCount == EntriesOps({FAll}) \/ ReadOps \/ BulkOpsNext
SpecCount == InitCount /\ [][NextCount]_vars

\* fetching while the page-size and pagination-mode settings change
NextLimit == EntriesOps({FAll}) \/ MoreOps \/ PageOps \/ ConfigOps
SpecLimit == InitFetch /\ [][NextLimit]_vars

\* background refresh of a paginated list while entries are opened
NextRefresh == EntriesOps({FAll}) \/ PageOps \/ RefreshOps \/ SelectOps
SpecRefresh == InitReset /\ [][NextRefresh]_vars

\* infinite scrolling of search results with background refresh
NextSearch == EntriesOps({FSearch}) \/ MoreOps \/ RefreshOps
SpecSearch == InitFetch /\ [][NextSearch]_vars

\* opening entries with the auto-mark-read timer while the list is refetched
NextTimer ==
  \/ EntriesOps({FAll}) \/ PageOps \/ SelectOps \/ TimerOps
  \/ \E s \in Slots : MarkReadOk(s)
  \/ \E s \in Slots : MarkReadErr(s)

SpecTimer == InitReset /\ [][NextTimer]_vars

\* page-number navigation
NextPaging == EntriesOps({FAll, FSearch}) \/ PageOps
SpecPaging == InitReset /\ [][NextPaging]_vars

\* changing the filter with a selection, pages and a search offset in place
NextReset == EntriesOps({FAll, FSearch}) \/ MoreOps \/ PageOps \/ SelectOps
SpecReset == InitReset /\ [][NextReset]_vars


\* ----------------------------------------------------------------- claims
\* steps seen from the network: a call of kind op is issued into / leaves slot s
Issued(s, op) == net[s].op = "none" /\ net'[s].op = op
Resolved(s, op) == net[s].op = op /\ net'[s].op = "none"

\* C1: every step that issues a fetchEntries call for a filter F leaves
\* filter = F, entries empty, no selection, searchOffset 0, currentPage 1 and
\* pageCursors = [null], whatever the state before and also when F is the
\* filter already active; the call it issues is a first-page fetch for F
\* (no cursor, offset 0).
C1_FetchEntriesResets ==
  [][\A s \in Slots :
       Issued(s, "fetchEntries") =>
         /\ net'[s].f \in Filters
         /\ filter' = net'[s].f
         /\ entries' = <<>>
         /\ selectedEntryId' = NULL
         /\ searchOffset' = 0
         /\ currentPage' = 1
         /\ pageCursors' = <<NoCursor>>
         /\ net'[s].cursor_id = NULL /\ net'[s].offset = 0
         /\ net'[s].limit = entriesPerPage]_vars

\* C1 witness: fetchEntries(search) was called while a fetchPage('next') of
\* the same search filter was still pending, i.e. from page >= 2 with rows
\* loaded and a non-zero search offset, and the state is reset.
C1_Witness ==
  \E s, t \in Slots :
    /\ net[s].op = "fetchEntries" /\ net[s].f = FSearch
    /\ net[t].op = "fetchPage" /\ net[t].dir = "next" /\ net[t].f = FSearch
    /\ net[t].offset > 0
    /\ filter = FSearch /\ entries = <<>> /\ selectedEntryId = NULL
    /\ searchOffset = 0 /\ currentPage = 1 /\ pageCursors = <<NoCursor>>


\* C2: the accumulated list is in non-increasing publish-timestamp order,
\* ties broken by id descending, and holds no entry id twice.
C2_SortedNoDuplicates ==
  \A i, j \in 1..Len(entries) :
    i < j => Before(Pub(entries[i].id), entries[i].id, Pub(entries[j].id), entries[j].id)

\* C10: a fetch response that resolves successfully after the filter was
\* changed (its request was built for another filter than the active one) is
\* applied like any other: fetchEntries, fetchPage and a replacing
\* silentRefresh overwrite entries and hasMore with its rows, fetchMore
\* appends its rows, a merging silentRefresh merges them.
C10_StaleResponseApplied ==
  [][\A s \in Slots :
       (net[s].op \in FetchOps /\ net[s].f # filter /\ net'[s].op = "none"
          /\ ~FetchEntriesErr(s) /\ ~FetchMoreErr(s) /\ ~FetchPageErr(s)
          /\ ~SilentRefreshErr(s))
       => LET rows == RpcRows(net[s])
              full == (Len(rows) >= entriesPerPage)
          IN CASE net[s].op = "fetchMore" ->
                    entries' = entries \o rows /\ hasMore' = full
               [] net[s].op = "silentRefresh" /\ net[s].dir = "merge" ->
                    entries' = Merge(entries, rows)
               [] OTHER -> entries' = rows /\ hasMore' = full]_vars

\* C10 witness: nothing is pending, the active filter is feed f1, and the
\* list holds a row of another feed, which only a response to a request
\* made under the earlier filter {all} can have delivered.
C10_Witness ==
  /\ filter = FFeed
  /\ \A s \in Slots : net[s].op = "none"
  /\ \E i \in 1..Len(entries) : FeedOf(entries[i].id) # "f1"


\* C6 as claimed: after fetchEntries, one awaited fetchPage('next') and one
\* awaited fetchPage('prev'), all successful, currentPage is 1 and the cursor
\* list has length 1 and holds only the initial null cursor.
C6_CursorListPopped ==
  hist = "P" => currentPage = 1 /\ pageCursors = <<NoCursor>>

\* C6 amended: the awaited fetchPage('prev') that follows fetchEntries and
\* one awaited fetchPage('next') requests page 1 with the null cursor
\* pageCursors[0] and leaves currentPage = 1; 'prev' does not pop, so while
\* that request is in flight and after it has resolved the cursor list keeps
\* length 2 and still holds the cursor recorded for page 2.
C6_BackOnFirstPage ==
  /\ hist = "p" =>
       \E s \in Slots :
         /\ net[s].op = "fetchPage"
         /\ net[s].cursor_id = NULL
         /\ net[s].offset = 0
         /\ net[s].limit = entriesPerPage
  /\ hist \in {"p", "P"} =>
       /\ currentPage = 1
       /\ Len(pageCursors) = 2
       /\ pageCursors[1] = NoCursor
       /\ pageCursors[2] # NoCursor

\* C6 witness: the three calls have completed and a page is displayed
C6_Witness ==
  hist = "P" /\ ~loading /\ Len(entries) = entriesPerPage /\ hasMore


Quiescent == \A s \in Slots : net[s].op = "none"

\* an upsert of the given operations completes successfully for the loaded
\* entry it captured (a failed upsert leaves the entry and the server alone)
Applied(s, ops) ==
  /\ net[s].op \in ops
  /\ net'[s].op = "none"
  /\ net[s].cap = 0
  /\ srvReadAt'[net[s].id] = net[s].val
  /\ entries'[IndexOf(entries, net[s].id)].read_at = net[s].val
  /\ error' = error

\* C3 as claimed: markRead is idempotent, two markRead(id) calls on one
\* entry apply the read_at mutation and its -1 delta once: every markRead
\* whose upsert succeeds finds its entry still unread.
C3_MarkReadAppliesOnce ==
  [][\A s \in Slots :
       Applied(s, {"markRead"}) =>
         entries[IndexOf(entries, net[s].id)].read_at = NULL]_vars

\* C4 as claimed: of two toggleStar(id) calls on one loaded entry that
\* starts unstarred, the first upsert carries a timestamp and the second
\* carries null, so two upserts in flight for one entry never carry the
\* same kind of value.
C4_ToggleStarAlternates ==
  \A s, t \in Slots :
    (/\ s # t
     /\ net[s].op = "toggleStar" /\ net[t].op = "toggleStar"
     /\ net[s].id = net[t].id /\ net[s].cap = net[t].cap)
    => (net[s].val = NULL) # (net[t].val = NULL)

\* C7 as claimed: markRead, toggleRead and toggleStar are optimistic, so
\* while the only upsert for a loaded entry is still in flight the entry
\* already shows the value that upsert carries.
C7_OptimisticUpdate ==
  \A s \in Slots :
    (/\ net[s].op \in UpsertOps
     /\ net[s].cap = 0
     /\ \A t \in Slots \ {s} : net[t].op = "none")
    => LET entry == entries[IndexOf(entries, net[s].id)]
       IN IF net[s].op = "toggleStar"
          THEN entry.starred_at = net[s].val
          ELSE entry.read_at = net[s].val

\* C8: a markRead or toggleRead that changes a loaded entry's read state
\* hands the same delta (-1 when it becomes read, +1 when it becomes unread)
\* to the counter of the entry's feed, of that feed's category and of every
\* group containing the feed, each counter clamping at zero, and leaves the
\* other feeds and groups alone; toggleStar changes no unread counter.
C8_SameDeltaEverywhere ==
  [][\A s \in Slots :
       /\ (/\ Applied(s, {"markRead", "toggleRead"})
           /\ (entries[IndexOf(entries, net[s].id)].read_at = NULL)
                # (net[s].val = NULL))
          => LET fd == FeedOf(net[s].id)
                 d == IF net[s].val # NULL THEN -1 ELSE 1
             IN /\ unread_count' =
                     [x \in Feeds |-> IF x = fd THEN Max(0, unread_count[x] + d)
                                      ELSE unread_count[x]]
                /\ categoryUnreadCounts' =
                     [c \in Categories |->
                        IF c = CatOf(fd) THEN Max(0, categoryUnreadCounts[c] + d)
                        ELSE categoryUnreadCounts[c]]
                /\ group_unread_count' =
                     [g \in Groups |->
                        IF g \in GroupsOf(fd) THEN Max(0, group_unread_count[g] + d)
                        ELSE group_unread_count[g]]
       /\ (net[s].op = "toggleStar" /\ net'[s].op = "none")
          => UNCHANGED countVars]_vars

\* C8 witness: entry 3 of feed f1 has been marked read, and feed f1, its
\* category and both groups holding f1 each dropped by one
C8_Witness ==
  /\ Quiescent
  /\ srvReadAt[3] # NULL
  /\ error = NoError
  /\ \E i \in 1..Len(entries) : entries[i].id = 3 /\ entries[i].read_at # NULL
  /\ unread_count = [x \in Feeds |-> 1]
  /\ categoryUnreadCounts["tech"] = 2
  /\ group_unread_count = [g \in Groups |-> IF g = "g1" THEN 2 ELSE 1]

\* C5: every feed, category and group unread count is >= 0 in every
\* reachable state, whatever deltas and bulk marks were applied in whatever
\* order.
C5_CountersNonNegative ==
  /\ \A fd \in Feeds : unread_count[fd] >= 0
  /\ \A c \in Categories : categoryUnreadCounts[c] >= 0
  /\ \A g \in Groups : group_unread_count[g] >= 0

\* C5 witness: a -1 delta is on its way to a feed counter that earlier
\* surplus decrements already drove to zero
C5_Witness ==
  \E s \in Slots :
    /\ net[s].op \in {"markRead", "toggleRead"}
    /\ net[s].val # NULL
    /\ unread_count[FeedOf(net[s].id)] = 0
    /\ srvReadAt[net[s].id] = NULL

\* C9 as claimed: once every operation has completed, each category's
\* unread count equals the sum of its feeds' unread counts and each group's
\* unread count equals the sum of its member feeds' unread counts.
C9_AggregatesAgree ==
  Quiescent =>
    /\ \A c \in Categories :
         categoryUnreadCounts[c] = SetSum(feedsByCategory(c), unread_count)
    /\ \A g \in Groups :
         group_unread_count[g] = SetSum(feedsByGroup(g), unread_count)


InFlight(op) == {s \in Slots : net[s].op = op}

\* C11: at most one fetchMore request is in flight at any time, and
\* loadingMore is true exactly while that request is in flight: it is set
\* when the request is issued and reset when the request ends, whether it
\* succeeded or failed.
C11_OneFetchMoreInFlight ==
  /\ Cardinality(InFlight("fetchMore")) <= 1
  /\ loadingMore <=> InFlight("fetchMore") # {}

\* C11 witness: a fetchMore is in flight while more pages are known, the
\* list is loaded and a further request could be sent: only the busy flag
\* stands between a second fetchMore call and a second request
C11_Witness ==
  /\ loadingMore
  /\ InFlight("fetchMore") # {}
  /\ hasMore
  /\ Len(entries) # 0
  /\ FreeSlots(net) # {}

\* C12: fetchMore is a no-op whenever hasMore is false, entries is empty or
\* loadingMore is true: every step that sends a fetchMore request, or that
\* raises loadingMore, starts in a state with hasMore true, a non-empty list
\* and loadingMore false, and no step that leaves a fetchMore-refusing state
\* stores the fetchMore error message unless a fetchMore request just failed.
C12_FetchMoreNoOp ==
  [][/\ (\/ \E s \in Slots : Issued(s, "fetchMore")
         \/ (~loadingMore /\ loadingMore'))
        => (hasMore /\ Len(entries) # 0 /\ ~loadingMore)
     /\ (error' = "Failed to load more entries" /\ error' # error)
        => \E s \in Slots : Resolved(s, "fetchMore")]_vars

\* C12 witness: the whole list is loaded, no more pages are known and
\* nothing is in flight, so a fetchMore call here is refused
C12_Witness ==
  /\ Quiescent
  /\ ~hasMore
  /\ ~loadingMore
  /\ Len(entries) = NumEntries
  /\ error = NoError


\* a fetchEntries, fetchMore or fetchPage request resolves successfully
FetchSucceeds(s) ==
  /\ net[s].op \in {"fetchEntries", "fetchMore", "fetchPage"}
  /\ net'[s].op = "none"
  /\ ~FetchEntriesErr(s) /\ ~FetchMoreErr(s) /\ ~FetchPageErr(s)

\* C13 as claimed: after every successful fetchEntries, fetchMore or
\* fetchPage, hasMore is true exactly when the number of rows returned is at
\* least the page size requested for that call (p_limit), also when the
\* entries-per-page setting changed while the request was in flight.
C13_HasMoreFromRequestedLimit ==
  [][\A s \in Slots :
       FetchSucceeds(s) => hasMore' = (Len(RpcRows(net[s])) >= net[s].limit)]_vars


\* C14: fetchPage('next') is refused when hasMore is false and
\* fetchPage('prev') is refused when currentPage is 1: a fetchPage request is
\* sent, and currentPage moves up, only from a state with hasMore true, and
\* moves down only from a page above 1; so currentPage >= 1 always.
C14_FetchPageGuards ==
  [][/\ \A s \in Slots :
          Issued(s, "fetchPage") =>
            IF net'[s].dir = "next"
            THEN hasMore /\ currentPage' = currentPage + 1
            ELSE currentPage > 1 /\ currentPage' = currentPage - 1
     /\ currentPage' > currentPage => hasMore
     /\ currentPage' < currentPage => currentPage > 1
     /\ currentPage >= 1
     /\ currentPage' >= 1]_vars

\* C14 witness: the last page is displayed with no more pages known and
\* nothing in flight, where 'next' is refused and 'prev' is accepted
C14_Witness ==
  /\ Quiescent
  /\ currentPage = 2
  /\ ~hasMore
  /\ ~loading
  /\ Len(entries) # 0


\* C15 as claimed: a failed fetchMore or fetchPage stores a message, resets
\* its loading flag and leaves entries, hasMore, currentPage and pageCursors
\* as they were before the call.  For fetchPage the call is the
\* fetchPage('next') made on page 1 right after an awaited fetchEntries, so
\* before the call currentPage was 1 and the cursor list held the null cursor.
C15_FailureLeavesPagination ==
  [][\A s \in Slots :
       /\ FetchMoreErr(s) =>
            /\ error' # NoError
            /\ ~loadingMore'
            /\ UNCHANGED <<entries, hasMore, currentPage, pageCursors>>
       /\ (hist = "n" /\ FetchPageErr(s)) =>
            /\ error' # NoError
            /\ ~loading'
            /\ UNCHANGED <<entries, hasMore>>
            /\ currentPage' = 1
            /\ pageCursors' = <<NoCursor>>]_vars


\* C16 as claimed: when the upsert of markRead, toggleRead or toggleStar
\* fails, the error field holds a message and the local change of the loaded
\* entry's timestamp is kept: after the failure of the only upsert in flight
\* the entry shows the value that upsert carried.
C16_FailedUpsertKeepsChange ==
  [][\A s \in Slots :
       (/\ MarkReadErr(s) \/ ToggleReadErr(s) \/ ToggleStarErr(s)
        /\ net[s].cap = 0
        /\ \A t \in Slots \ {s} : net[t].op = "none")
       => LET entry == entries'[IndexOf(entries', net[s].id)]
          IN /\ error' # NoError
             /\ IF net[s].op = "toggleStar"
                THEN entry.starred_at = net[s].val
                ELSE entry.read_at = net[s].val]_vars


IdSeq(s) == [i \in 1..Len(s) |-> s[i].id]

\* the new list is the old one with, at most, rows put in front of it
KeepsOrder(old, new) ==
  \E k \in 0..Len(new) : IdSeq(Drop(new, k)) = IdSeq(old)

\* C17 as claimed: no silentRefresh request is sent while the reader is open
\* with an entry selected, and no silentRefresh response replaces or reorders
\* entries in such a state, also when the entry was selected after the
\* request was sent.
C17_RefreshSparesOpenReader ==
  [][\A s \in Slots :
       /\ Issued(s, "silentRefresh") => ~(readerOpen /\ selectedEntryId # NULL)
       /\ (Resolved(s, "silentRefresh") /\ readerOpen /\ selectedEntryId # NULL)
          => KeepsOrder(entries, entries')]_vars


NoDuplicateIds(s) == \A i, j \in 1..Len(s) : i # j => s[i].id # s[j].id

\* what the claimed merge of the returned rows into the loaded list yields
MergedAsClaimed(old, rows, new) ==
  LET fresh == SelectSeq(rows, LAMBDA r : r.id \notin Ids(old))
      n == Len(fresh)
  IN /\ Len(new) = n + Len(old)
     /\ \A k \in 1..n : new[k] = fresh[k]
     /\ \A i \in 1..Len(old) :
          /\ new[n + i].id = old[i].id
          /\ \A k \in 1..Len(rows) :
               rows[k].id = old[i].id =>
                 /\ new[n + i].read_at = rows[k].read_at
                 /\ new[n + i].starred_at = rows[k].starred_at
          /\ old[i].id \notin Ids(rows) => new[n + i] = old[i]
     /\ NoDuplicateIds(new)

\* C18 as claimed: a successful silentRefresh that took the merge branch
\* keeps every loaded entry at its relative position with read_at and
\* starred_at overwritten by its fresh row, prepends the rows with unknown
\* ids in returned order, leaves no id twice in the list and leaves hasMore
\* unchanged.
C18_MergeKeepsList ==
  [][\A s \in Slots :
       (/\ Resolved(s, "silentRefresh")
        /\ net[s].dir = "merge"
        /\ ~SilentRefreshErr(s))
       => /\ MergedAsClaimed(entries, RpcRows(net[s]), entries')
          /\ hasMore' = hasMore]_vars


\* C19 as claimed: a failed silentRefresh is swallowed and leaves entries,
\* hasMore, error, currentPage and the search offset the next fetchMore will
\* send as they were before silentRefresh was called.  For the offset the
\* call is the silentRefresh made right after an awaited fetchEntries, before
\* which the offset was the number of rows loaded (0 for non-search filters).
C19_FailedRefreshPreservesState ==
  [][\A s \in Slots :
       SilentRefreshErr(s) =>
         /\ UNCHANGED <<entries, hasMore, error, currentPage>>
         /\ hist = "r" =>
              searchOffset' = IF filter.type = "search" THEN Len(entries) ELSE 0]_vars


\* C20 as claimed: the timer armed by selectEntry(id) runs markRead(id) only
\* if id is still the selected entry: whenever the timer fires and sends the
\* markRead upsert, the entry it marks is the selected one.
C20_TimerOnlyForSelected ==
  [][\A t \in timers :
       (MarkReadTimerFires(t) /\ \E s \in Slots : Issued(s, "markRead"))
         => selectedEntryId = t.id]_vars


\* the three debounced operations side by side
NextDebounce ==
  \/ FetchEntries(FAll)
  \/ (\E s \in Slots : FetchEntriesOk(s))
  \/ (\E id \in Ids(entries) \cup {NULL} : SelectEntry(id))
  \/ TimerOps
  \/ (\E mode \in {"infinite", "paginated"} : setPaginationMode(mode))
  \/ LoadSettingsFromDB
  \/ LoadSettingsOk
  \/ (\E t \in timers : DbSaveTimerFires(t))
  \/ (\E session, ok \in BOOLEAN : DbSaveWrite(session, ok))
  \/ (\E q \in Queries : SetSearchQuery(q))
  \/ (\E t \in timers : DebounceTimerFires(t))
SpecDebounce == InitReset /\ [][NextDebounce]_vars

\* the variable that holds the handle of a timer of the given kind
HandleOf(kind) ==
  CASE kind = "markRead" -> markReadTimer
    [] kind = "search" -> debounceTimer
    [] kind = "dbSave" -> dbSaveTimer
    [] OTHER -> recoveryTimer

\* C21: each debounced operation (search-as-you-type, mark-read-on-select,
\* settings persistence) has at most one pending timer at any time, and that
\* timer is the one its handle variable names, so the next trigger clears
\* it; every trigger that arms a timer leaves exactly one pending timer of
\* its kind, carrying that trigger's value (the selected id, the trimmed
\* query), and the search callback that eventually runs gets the query of
\* the last trigger.
C21_OnePendingTimer ==
  /\ [](\A kind \in {"markRead", "search", "dbSave"} :
          /\ Cardinality(Pending(kind)) <= 1
          /\ \A t \in Pending(kind) : t.h = HandleOf(kind))
  /\ [][/\ \A id \in EntryIds :
             SelectEntry(id) =>
               Pending("markRead")' = {Timer(markReadTimer', "markRead", id, "")}
        /\ \A q \in Queries :
             (SetSearchQuery(q) /\ Trim(q) # "") =>
               Pending("search")' = {Timer(debounceTimer', "search", NULL, Trim(q))}
        /\ (((\E mode \in {"infinite", "paginated"} : setPaginationMode(mode)) \/ LoadSettingsOk) /\ dbSyncEnabled'
              /\ <<paginationMode, entriesPerPage>>' # <<paginationMode, entriesPerPage>>)
             => Cardinality(Pending("dbSave")') = 1
        /\ \A t \in timers :
             DebounceTimerFires(t) => lastCallback' = Trim(searchQuery)]_vars

\* C21 witness: all three debounce timers are pending at once, each after a
\* burst: an entry is selected while the previous selection's upsert is
\* still in flight, the query "a " replaced an earlier query whose callback
\* already ran, and a settings change followed the one that was loaded
C21_Witness ==
  /\ \E t \in Pending("markRead") :
       /\ t.id = selectedEntryId
       /\ \E s \in Slots : net[s].op = "markRead" /\ net[s].id # t.id
  /\ \E t \in Pending("search") :
       t.q = "a" /\ searchQuery = "a " /\ lastCallback = "b"
  /\ Pending("dbSave") # {} /\ dbSyncEnabled /\ getSyncedSnapshot # srvSettings


\* bulk marks over a loaded list: nothing read at first, one or two rows
\* loaded under the all or the feed filter
InitBulk ==
  /\ Init
  /\ srvReadAt = [e \in EntryIds |-> NULL]
  /\ srvStarredAt = [e \in EntryIds |-> NULL]
  /\ paginationMode = "infinite"
  /\ srvSettings = getSyncedSnapshot

NextBulk == EntriesOps({FAll, FFeed}) \/ BulkOpsNext
SpecBulk == InitBulk /\ [][NextBulk]_vars

\* the loaded entries a bulk mark of kind op with argument arg must stamp
BulkScope(op, arg, id) ==
  CASE op = "markFeedAsRead" -> FeedOf(id) = arg
    [] op = "markGroupAsRead" -> FeedOf(id) \in feedsByGroup(arg)
    [] op = "markCategoryAsRead" -> FeedOf(id) \in feedsByCategory(arg)
    [] OTHER -> TRUE

BulkOk(s) ==
  \/ MarkAllReadOk(s) \/ MarkFeedAsReadOk(s)
  \/ MarkGroupAsReadOk(s) \/ MarkCategoryAsReadOk(s)

BulkFails(s) ==
  \/ MarkAllReadErr(s) \/ MarkFeedAsReadErr(s)
  \/ MarkGroupAsReadErr(s) \/ MarkCategoryAsReadErr(s)

\* C22: a successful markAllRead, markFeedAsRead(f), markGroupAsRead(g) or
\* markCategoryAsRead(c) keeps the loaded list's entries and leaves every
\* loaded entry in scope (all of them; those of feed f; of the feeds of g; of
\* the feeds of c) with a non-null read_at and every loaded entry out of
\* scope exactly as it was; a failed bulk call changes no entry and no
\* counter and sets error.
C22_BulkMarksStampScope ==
  [][\A s \in Slots :
       /\ BulkOk(s) =>
            /\ Len(entries') = Len(entries)
            /\ \A i \in 1..Len(entries) :
                 /\ entries'[i].id = entries[i].id
                 /\ IF BulkScope(net[s].op, net[s].f.arg, entries[i].id)
                    THEN entries'[i].read_at # NULL
                    ELSE entries'[i] = entries[i]
       /\ BulkFails(s) =>
            /\ UNCHANGED <<entries, countVars>>
            /\ error' # NoError]_vars

\* C22 witness: nothing was read at first; with e3 (feed f1) and e2 (feed
\* f2) loaded, markFeedAsRead(f1) succeeded: e3 is stamped, e2 is still
\* unread and f1's count is 0
C22_Witness ==
  /\ Len(entries) = 2
  /\ entries[1].id = 3 /\ entries[1].read_at # NULL
  /\ entries[2].id = 2 /\ entries[2].read_at = NULL
  /\ unread_count["f1"] = 0 /\ unread_count["f2"] = 1
  /\ srvReadAt[2] = NULL


\* infinite scroll under the starred filter, with stars toggled meanwhile
NextStarred == EntriesOps({FStarred}) \/ MoreOps \/ StarOps
SpecStarred == InitFetch /\ [][NextStarred]_vars

\* C23 as claimed: every fetchMore (and fetchPage 'next') request under a
\* cursor-paginated filter carries the keyset cursor of the last loaded
\* entry: (starred_at, id) under the starred filter, whatever the entry's
\* local state, also after toggleStar un-starred it, and (publish timestamp,
\* id) under the all, feed, group and category filters.
C23_RequestCarriesLastCursor ==
  [][\A s \in Slots :
       ((Issued(s, "fetchMore") \/ (Issued(s, "fetchPage") /\ net'[s].dir = "next"))
          /\ filter.type # "search")
         => LET last == entries[Len(entries)]
            IN /\ net'[s].cursor_id = last.id
               /\ net'[s].cursor_ts = IF filter.type = "starred"
                                      THEN last.starred_at ELSE Pub(last.id)]_vars


\* tab-return / online recovery around a loaded list
NextRecovery == EntriesOps({FAll}) \/ RefreshOps \/ RecoveryOps
SpecRecovery == InitReset /\ [][NextRecovery]_vars

\* C24: every scheduled recovery triggers refetchAllData exactly once: the
\* calls of refetchAllData so far are the recoveries scheduled so far, minus
\* the one still pending; a recovery is pending exactly while its fallback
\* timer is, and there is one such timer at most; the call is made either by
\* the TOKEN_REFRESHED watcher, which cancels the timer, or by the timer
\* itself, one call per step; and no recovery timer is armed while a
\* recovery is pending.
C24_RecoveryRefetchesOnce ==
  /\ [](/\ refetchCalls + (IF pendingRecovery THEN 1 ELSE 0) = recoveriesScheduled
        /\ pendingRecovery <=> Pending("recovery") # {}
        /\ Cardinality(Pending("recovery")) <= 1)
  /\ [][/\ refetchCalls' # refetchCalls =>
             /\ refetchCalls' = refetchCalls + 1
             /\ pendingRecovery /\ ~pendingRecovery'
             /\ Pending("recovery")' = {}
        /\ Pending("recovery")' \ Pending("recovery") # {} => ~pendingRecovery
        /\ \A session \in BOOLEAN :
             TokenRefreshed(session) =>
               refetchCalls' = refetchCalls + 1 /\ recoveryTimer' = NULL]_vars

\* C24 witness: two recoveries were scheduled and both have run
\* refetchAllData, the second one from the fallback timer (its handle is
\* still held), and the silentRefresh it started is in flight
C24_Witness ==
  /\ recoveriesScheduled = 2 /\ refetchCalls = 2
  /\ ~pendingRecovery /\ recoveryTimer # NULL /\ Pending("recovery") = {}
  /\ \E s \in Slots : net[s].op = "silentRefresh"


\* settings sync: the local cache and the user_settings row may differ
InitSync ==
  /\ Init
  /\ srvReadAt = [e \in EntryIds |-> NULL]
  /\ srvStarredAt = [e \in EntryIds |-> NULL]

NextSync == ConfigOps \/ SyncOps
SpecSync == InitSync /\ [][NextSync]_vars

\* C25 as claimed: applying the row read by loadSettingsFromDB schedules no
\* write-back: the step that assigns the loaded values leaves the pending
\* debounced saves as they were, whereas a user change to a synced setting
\* made once sync is enabled leaves a save pending.
C25_LoadSchedulesNoSave ==
  [][/\ LoadSettingsOk => Pending("dbSave")' = Pending("dbSave")
     /\ (ConfigOps /\ dbSyncEnabled) => Pending("dbSave")' # {}]_vars


\* selection by click and by keyboard while pages load and refresh
NextSelect == EntriesOps({FAll}) \/ PageOps \/ RefreshOps \/ SelectOps \/ NavOps
SpecSelect == InitReset /\ [][NextSelect]_vars

\* C26 as claimed: in every reachable state selectedEntryId is null or the
\* id of an entry currently in entries, whichever fetchEntries, fetchPage or
\* silentRefresh completion came last.
C26_SelectionIsLoaded ==
  selectedEntryId = NULL \/ selectedEntryId \in Ids(entries)


\* the first page is on display: the state an awaited fetchEntries(all)
\* leaves in paginated mode, for both page sizes
InitLoaded ==
  /\ srvReadAt = [e \in EntryIds |-> NULL]
  /\ srvStarredAt = [e \in EntryIds |-> IF e <= 2 THEN 1 ELSE NULL]
  /\ entriesPerPage \in PageSizes
  /\ paginationMode = "paginated"
  /\ filter = FAll
  /\ entries = RpcRows(callRpc("fetchEntries", FAll, NoCursor, 0, ""))
  /\ hasMore = (Len(entries) >= entriesPerPage)
  /\ selectedEntryId = NULL
  /\ loading = FALSE
  /\ loadingMore = FALSE
  /\ error = NoError
  /\ searchOffset = 0
  /\ currentPage = 1
  /\ pageCursors = <<NoCursor>>
  /\ markReadTimer = NULL
  /\ readerOpen = FALSE
  /\ unread_count = [fd \in Feeds |-> UnreadIn({fd}, srvReadAt)]
  /\ categoryUnreadCounts = [c \in Categories |-> UnreadIn(feedsByCategory(c), srvReadAt)]
  /\ group_unread_count = [g \in Groups |-> UnreadIn(feedsByGroup(g), srvReadAt)]
  /\ now = 1
  /\ net = [s \in Slots |-> NoReq]
  /\ orph = [k \in Slots |-> NoObj]
  /\ hist = "E"
  /\ timers = {}
  /\ dbSyncEnabled = FALSE
  /\ dbSaveTimer = NULL
  /\ settingsLoaded = FALSE
  /\ dbLoads = 0
  /\ dbSaves = 0
  /\ srvSettings = getSyncedSnapshot
  /\ searchQuery = ""
  /\ isSearching = FALSE
  /\ debounceTimer = NULL
  /\ lastCallback = NoCallback
  /\ mounted = TRUE
  /\ pendingRecovery = FALSE
  /\ recoveryTimer = NULL
  /\ recoveriesScheduled = 0
  /\ refetchCalls = 0

\* page turns that all succeed, possibly overlapping
NextTurn ==
  \/ FetchPageNext
  \/ FetchPagePrev
  \/ \E s \in Slots : FetchPageOk(s)
SpecTurn == InitLoaded /\ [][NextTurn]_vars

\* the rows a request made with the k-th recorded cursor returns
PageRows(k) ==
  RpcRows(callRpc("fetchPage", filter, pageCursors[k], (k - 1) * entriesPerPage, ""))

\* C27 as claimed: in paginated mode, whenever rows are displayed, no fetch
\* is in flight and every fetch succeeded, the displayed entries are the
\* page fetched with the cursor recorded for currentPage (no cursor for page
\* 1), and the cursor recorded for each later page up to currentPage is the
\* position of the last row of the page before it, so that currentPage
\* counts the pages turned; overlapping fetchPage calls included.
C27_DisplayedPageIsCurrentPage ==
  (paginationMode = "paginated" /\ ~FetchPending /\ entries # <<>>)
    => /\ currentPage <= Len(pageCursors)
       /\ pageCursors[1] = NoCursor
       /\ Ids(entries) = Ids(PageRows(currentPage))
       /\ \A k \in 2..currentPage :
            LET before == PageRows(k - 1)
            IN /\ before # <<>>
               /\ pageCursors[k].id = before[Len(before)].id


\* read-state changes on the displayed page, calls overlapping freely
NextOverlap == ReadOps
SpecOverlap == InitLoaded /\ [][NextOverlap]_vars

\* C28 as claimed: however markRead and toggleRead calls for one entry
\* overlap, once every call has completed the deltas applied to a feed's
\* unread count add up to the net change of its entries' read state, so the
\* count is again the number of unread entries of the feed, and each loaded
\* entry's read_at is the value last written to the server.
C28_NetDeltaMatchesReadState ==
  Quiescent =>
    /\ \A fd \in Feeds : unread_count[fd] = UnreadIn({fd}, srvReadAt)
    /\ \A i \in 1..Len(entries) : entries[i].read_at = srvReadAt[entries[i].id]


\* C29 as claimed: with the filter {feed, f} active a successful markAllRead
\* leaves the unread counts of feed f, of its category and of its groups as
\* a successful markFeedAsRead(f) leaves them from the same state (feed f's
\* count is 0), however many unread entries of f are not loaded, here with
\* the feed's first page on display.
C29_MarkAllReadAsMarkFeedAsRead ==
  [][\A s \in Slots :
       (MarkAllReadOk(s) /\ net[s].f.type = "feed" /\ filter = net[s].f
          /\ ~loading /\ entries # <<>>)
         => /\ unread_count'[net[s].f.arg] = 0
            /\ Propagate(net[s].f.arg, -unread_count[net[s].f.arg])]_vars


\* C30 as claimed: the busy flags mirror the outstanding requests: loading
\* is true whenever a fetchEntries or fetchPage request is in flight, also
\* after the first of two overlapping requests has completed, loadingMore
\* is true whenever a fetchMore request is in flight, and both are false
\* once no request is outstanding.
C30_BusyFlagsMirrorRequests ==
  /\ (InFlight("fetchEntries") \cup InFlight("fetchPage") # {}) => loading
  /\ InFlight("fetchMore") # {} => loadingMore
  /\ Quiescent => ~loading /\ ~loadingMore

====
